---- MODULE Spec2Model ----
(***************************************************************************)
(* Model of commSome.cpp: a GLFW/CHAI3D demo with a main (graphics) thread *)
(* and one haptics thread.                                                 *)
(*                                                                         *)
(* Spec / FairSpec : the life cycle of the two threads (main, key          *)
(*                   callback, close, start-up and loop of renderHaptics). *)
(*                   The shared booleans are plain variables; every read   *)
(*                   and every write of one of them is one step.           *)
(* ForceSpec       : the body of the haptics loop, statement block by      *)
(*                   statement block, with its vector arithmetic.          *)
(***************************************************************************)
EXTENDS Integers, Sequences, FiniteSets, TLC

VARIABLES
    mpc,                 \* position of the main thread
    hpc,                 \* position of the haptics thread
    simulationRunning,   \* bool simulationRunning
    simulationFinished,  \* bool simulationFinished
    fullscreen,          \* bool fullscreen
    mirroredDisplay,     \* bool mirroredDisplay
    window,              \* the GLFW window: state, monitor, position, size, should-close flag
    windowW, windowH,    \* int windowW, windowH
    mode,                \* the GLFWvidmode last read with glfwGetVideoMode
    camera,              \* the cCamera: created, mirrorVertical
    glfw,                \* the GLFW library: "uninit", "init", "terminated"
    atexitClose,         \* TRUE once atexit(close) has registered close
    toolState,           \* the cToolCursor: "none", "started", "stopped"
    released,            \* the objects close() has deleted
    lastEvent,           \* the event the current glfwPollEvents delivered last
    evCount,             \* number of events the current glfwPollEvents has delivered
    \* ---- the haptics loop body (ForceSpec) ----
    iter,                \* iterations of the haptics loop started
    sentCount,           \* calls of tool->setDeviceGlobalForce
    toolPos,             \* cVector3d toolPos
    linearVelocity,      \* cVector3d linearVelocity of the object0 block
    engineForce,         \* tool->getDeviceGlobalForce(), as returned to the iteration
    baseForce,           \* cVector3d baseForce
    deviceForce,         \* the force last passed to tool->setDeviceGlobalForce
    inLoop,              \* bool inLoop
    oscTime3,            \* double oscTime3, in time steps
    radiusSum3,          \* double radiusSum of the object3 block
    object2Vel,          \* cVector3d object2Vel
    object2Local,        \* object2->getLocalPos()
    object2Global        \* object2->getGlobalPos()

lifeVars == <<mpc, simulationFinished, fullscreen, mirroredDisplay, window,
              windowW, windowH, mode, camera, glfw, atexitClose, toolState,
              released, lastEvent, evCount>>

forceVars == <<iter, sentCount, toolPos, linearVelocity, engineForce, baseForce,
               deviceForce, inLoop, oscTime3, radiusSum3, object2Vel,
               object2Local, object2Global>>

vars == <<hpc, simulationRunning, lifeVars, forceVars>>

(***************************************************************************)
(* Bounds                                                                  *)
(***************************************************************************)
\* events one glfwPollEvents call delivers at most
MaxEvents == 2

\* iterations of the haptics loop that ForceSpec follows
MaxIter == 2

(***************************************************************************)
(* Integer arithmetic of the C++ conversions                               *)
(***************************************************************************)
\* (int)(n/d) for a double quotient: truncation toward zero
TruncDiv(n, d) == IF n >= 0 THEN n \div d ELSE -((-n) \div d)

(***************************************************************************)
(* GLFW environment                                                        *)
(***************************************************************************)
\* video modes of the primary monitor: landscape, 5:4, portrait
VideoModes == { [width |-> 1920, height |-> 1080],
                [width |-> 1280, height |-> 1024],
                [width |-> 600,  height |-> 1001] }

Keys == {"ESCAPE", "Q", "F", "M", "A"}

KeyActions == {"PRESS", "REPEAT", "RELEASE"}

\* sizes a window-size event reports after the user resized the window
UserSizes == { [w |-> 640, h |-> 480] }

NoEvent == [type |-> "none", key |-> "none", action |-> "none"]

NoMode == [width |-> 0, height |-> 0]

NoWindow == [state |-> "none", monitor |-> "NULL", x |-> 0, y |-> 0,
             w |-> 0, h |-> 0, shouldClose |-> FALSE]

\* int w = 0.8 * mode->height; int h = 0.5 * mode->height;
\* int x = 0.5 * (mode->width - w); int y = 0.5 * (mode->height - h);
WindowedW(m) == TruncDiv(8 * m.height, 10)

WindowedH(m) == TruncDiv(5 * m.height, 10)

WindowedX(m) == TruncDiv(5 * (m.width - WindowedW(m)), 10)

WindowedY(m) == TruncDiv(5 * (m.height - WindowedH(m)), 10)

\* glfwSetWindowMonitor(window, monitor, 0, 0, mode->width, mode->height, ...)
\* or glfwSetWindowMonitor(window, NULL, x, y, w, h, ...)
SetWindowMonitorMut(win, fs, m) ==
    IF fs
    THEN [win EXCEPT !.monitor = "NULL", !.x = WindowedX(m), !.y = WindowedY(m),
                     !.w = WindowedW(m), !.h = WindowedH(m)]
    ELSE [win EXCEPT !.monitor = "primary", !.x = 0, !.y = 0,
                     !.w = m.width, !.h = m.height]

SetWindowMonitor(win, fs, m) ==
    IF fs
    THEN [win EXCEPT !.monitor = "primary", !.x = 0, !.y = 0,
                     !.w = m.width, !.h = m.height]
    ELSE [win EXCEPT !.monitor = "NULL", !.x = WindowedX(m), !.y = WindowedY(m),
                     !.w = WindowedW(m), !.h = WindowedH(m)]

\* (a_action != GLFW_PRESS) && (a_action != GLFW_REPEAT) filters the call out
IsPressOrRepeat(a) == a \in {"PRESS", "REPEAT"}

\* (a_key == GLFW_KEY_ESCAPE) || (a_key == GLFW_KEY_Q)
IsExitKeyMut(k) == k = "ESCAPE"

IsExitKey(k) == k \in {"ESCAPE", "Q"}

\* camera->setMirrorVertical(a_enabled)
SetMirrorVerticalMut(cam, enabled) == cam

SetMirrorVertical(cam, enabled) == [cam EXCEPT !.mirrorVertical = enabled]

(***************************************************************************)
(* The scene and the arithmetic of the haptics loop.                       *)
(* Fixed point: lengths in 0.1 mm, forces in mN, the tool's velocity in    *)
(* mm/s, object2Vel in um/s, oscTime3 in time steps of 1 ms. A product by  *)
(* a constant that is no integer truncates toward zero.                    *)
(***************************************************************************)
\* object0 = new cShapeSphere(0.5); object0->setLocalPos(0.0, -1.2, 0.0);
Object0Radius == 5000

Object0Pos == <<0, -12000, 0>>

\* object3 = new cShapeSphere(0.5); object3->setLocalPos(0, 0.0, 0);
Object3Radius == 5000

Object3Pos == <<0, 0, 0>>

\* object2 = new cShapeSphere(0.3); cVector3d object2StartPos(0.0, 1.0, 0.0);
Object2Radius == 3000

Object2StartPos == <<0, 10000, 0>>

\* double radiusSum = 0.05 + object0->getRadius();
RadiusSum0 == 500 + Object0Radius

\* double radiusSum = inLoop ? 0.05 + object3->getRadius() * 2
\*                           : (0.05 + object3->getRadius());
RadiusSum3(il) == IF il THEN 500 + Object3Radius * 2 ELSE 500 + Object3Radius

\* double radiusSum = 0.03 + object2->getRadius();
RadiusSum2 == 300 + Object2Radius

\* (object2->getLocalPos() - object2StartPos).length() > 1.0
ResetDistance == 10000

VAdd(a, b) == <<a[1] + b[1], a[2] + b[2], a[3] + b[3]>>

VSub(a, b) == <<a[1] - b[1], a[2] - b[2], a[3] - b[3]>>

VScale(k, a) == <<k * a[1], k * a[2], k * a[3]>>

VDiv(a, d) == <<TruncDiv(a[1], d), TruncDiv(a[2], d), TruncDiv(a[3], d)>>

\* the square of (a - b).length()
Dist2(a, b) ==
    (a[1] - b[1]) * (a[1] - b[1]) + (a[2] - b[2]) * (a[2] - b[2])
        + (a[3] - b[3]) * (a[3] - b[3])

\* dist < radiusSum, for dist = (objPos - toolPos).length()
InZoneMut(objPos, tPos, radiusSum) ==
    Dist2(objPos, tPos) <= radiusSum * radiusSum

InZone(objPos, tPos, radiusSum) ==
    Dist2(objPos, tPos) < radiusSum * radiusSum

\* double Kv = 0.1; forceDamping = Kv * linearVelocity;
\* baseForce.add(forceDamping); baseForce *= 4;
Object0ForceMut(force, v) == VAdd(VScale(4, force), VDiv(v, 10))

Object0Force(force, v) == VScale(4, VAdd(force, VDiv(v, 10)))

\* amp * sin(2.0 * 3.14159 * freq * oscTime3) and amp * cos(...) for
\* amp = 6.0, freq = 6.0 and oscTime3 = k * timeStep, rounded to 1 mN
OscSin == <<226, 452, 677, 901, 1124, 1346, 1565, 1782>>

OscCos == <<5996, 5983, 5962, 5932, 5894, 5847, 5792, 5729>>

\* cVector3d(-f2, f, f2)
Oscillation(k) == <<-OscCos[k], OscSin[k], OscCos[k]>>

\* netForce = -baseForce - damping * object2Vel, with damping = 0.0;
\* (netForce / mass) * timeStep with mass = 0.5, timeStep = 0.001:
\* 1 mN / 0.5 kg * 1 ms = 2 um/s
Object2Impulse(force, vel) ==
    VScale(2, VSub(VScale(-1, force), VScale(0, vel)))

\* baseForce *= 10;
Object2Force(force) == VScale(10, force)

\* object2Vel * timeStep: 1 um/s * 1 ms = 1 nm, 100000 nm = 0.1 mm
Object2Step(vel) == VDiv(vel, 100000)

\* object2Vel *= 0.999;
Object2Decay(vel) == VDiv(VScale(999, vel), 1000)

\* inputs of one iteration: the tool positions (far from all objects; in
\* object0; at distance radiusSum from object0; in object3; in object0 and
\* the outer radius of object3; in object2's start zone and the outer
\* radius of object3; in object2's start zone only)
ToolPositions == { <<0, 0, 11000>>, <<0, -12000, 0>>, <<0, -6500, 0>>,
                   <<0, 5000, 0>>, <<0, -8000, 0>>, <<0, 8000, 0>>,
                   <<0, 12000, 0>> }

\* the interaction forces the engine returns, in mN
EngineForces == { <<1000, -2000, 500>>, <<0, -50000, 0>> }

\* the tool velocities the device reports, in mm/s
ToolVelocities == { <<100, -50, 20>>, <<0, 0, 0>> }

\* position and velocity of object2 at the start of an iteration: at rest
\* at its start position, or drifting 0.1 mm short of the reset distance
Object2States == { [pos |-> Object2StartPos, vel |-> <<0, 0, 0>>],
                   [pos |-> <<0, 19999, 0>>, vel |-> <<0, 200000, 0>>] }

(***************************************************************************)
(* Initial state of the life cycle: the globals as initialised             *)
(***************************************************************************)
LifeInit ==
    /\ mpc = "glfwInit"
    /\ hpc = "none"
    /\ simulationRunning = FALSE
    /\ simulationFinished = TRUE
    /\ fullscreen = FALSE
    /\ mirroredDisplay = FALSE
    /\ window = NoWindow
    /\ windowW = 0
    /\ windowH = 0
    /\ mode = NoMode
    /\ camera = [created |-> FALSE, mirrorVertical |-> FALSE]
    /\ glfw = "uninit"
    /\ atexitClose = FALSE
    /\ toolState = "none"
    /\ released = {}
    /\ lastEvent = NoEvent
    /\ evCount = 0

\* the loop body's variables when renderHaptics enters its loop
ForceIdle ==
    /\ iter = 0
    /\ sentCount = 0
    /\ toolPos = <<0, 0, 0>>
    /\ linearVelocity = <<0, 0, 0>>
    /\ engineForce = <<0, 0, 0>>
    /\ baseForce = <<0, 0, 0>>
    /\ deviceForce = <<0, 0, 0>>
    /\ inLoop = FALSE
    /\ oscTime3 = 0
    /\ radiusSum3 = 0
    /\ object2Vel = <<0, 0, 0>>
    /\ object2Local = Object2StartPos
    /\ object2Global = Object2StartPos

Init == LifeInit /\ ForceIdle

(***************************************************************************)
(* main                                                                    *)
(***************************************************************************)
\* glfwInit, glfwGetVideoMode, glfwCreateWindow, glfwSetWindowPos,
\* glfwSetWindowSize; either of the first and third may fail: return 1
MainCreateWindow ==
    /\ mpc = "glfwInit"
    /\ \E initOk \in BOOLEAN, createOk \in BOOLEAN, m \in VideoModes :
         IF ~initOk
         THEN /\ mpc' = "exited"
              /\ UNCHANGED <<glfw, mode, windowW, windowH, window>>
         ELSE /\ mode' = m
              /\ windowW' = WindowedW(m)
              /\ windowH' = WindowedH(m)
              /\ IF createOk
                 THEN /\ window' = [state |-> "open", monitor |-> "NULL",
                                    x |-> WindowedX(m), y |-> WindowedY(m),
                                    w |-> WindowedW(m), h |-> WindowedH(m),
                                    shouldClose |-> FALSE]
                      /\ glfw' = "init"
                      /\ mpc' = "setupWorld"
                 ELSE /\ window' = window
                      /\ glfw' = "terminated"
                      /\ mpc' = "exited"
    /\ UNCHANGED <<hpc, simulationRunning, simulationFinished, fullscreen,
                   mirroredDisplay, camera, atexitClose, toolState, released,
                   lastEvent, evCount, forceVars>>

\* new cWorld, new cCamera, camera->setMirrorVertical(mirroredDisplay),
\* new cHapticDeviceHandler, new cToolCursor, tool->start(), the objects,
\* the label and the viewport
MainSetupWorld ==
    /\ mpc = "setupWorld"
    /\ camera' = SetMirrorVertical([created |-> TRUE, mirrorVertical |-> FALSE],
                                   mirroredDisplay)
    /\ toolState' = "started"
    /\ mpc' = "startThread"
    /\ UNCHANGED <<hpc, simulationRunning, simulationFinished, fullscreen,
                   mirroredDisplay, window, windowW, windowH, mode, glfw,
                   atexitClose, released, lastEvent, evCount, forceVars>>

\* hapticsThread = new cThread(); hapticsThread->start(renderHaptics, ...)
MainStartThread ==
    /\ mpc = "startThread"
    /\ hpc' = "l722"
    /\ mpc' = "atexit"
    /\ UNCHANGED <<simulationRunning, simulationFinished, fullscreen,
                   mirroredDisplay, window, windowW, windowH, mode, camera,
                   glfw, atexitClose, toolState, released, lastEvent, evCount,
                   forceVars>>

\* atexit(close)
MainAtexit ==
    /\ mpc = "atexit"
    /\ atexitClose' = TRUE
    /\ mpc' = "loopTest"
    /\ UNCHANGED <<hpc, simulationRunning, simulationFinished, fullscreen,
                   mirroredDisplay, window, windowW, windowH, mode, camera,
                   glfw, toolState, released, lastEvent, evCount, forceVars>>

\* while (!glfwWindowShouldClose(window))
MainLoopTest ==
    /\ mpc = "loopTest"
    /\ mpc' = IF window.shouldClose THEN "destroyWindow" ELSE "render"
    /\ UNCHANGED <<hpc, simulationRunning, simulationFinished, fullscreen,
                   mirroredDisplay, window, windowW, windowH, mode, camera,
                   glfw, atexitClose, toolState, released, lastEvent, evCount,
                   forceVars>>

\* renderGraphics() of the loop body, then glfwPollEvents() is entered
MainRender ==
    /\ mpc = "render"
    /\ mpc' = "poll"
    /\ lastEvent' = NoEvent
    /\ evCount' = 0
    /\ UNCHANGED <<hpc, simulationRunning, simulationFinished, fullscreen,
                   mirroredDisplay, window, windowW, windowH, mode, camera,
                   glfw, atexitClose, toolState, released, forceVars>>

\* void onKeyCallback(a_window, a_key, a_scancode, a_action, a_mods);
\* m is the video mode glfwGetVideoMode returns in the F branch
KeyCallback(k, a, m) ==
    IF ~IsPressOrRepeat(a)
    THEN UNCHANGED <<window, fullscreen, mode, mirroredDisplay, camera>>
    ELSE IF IsExitKey(k)
    THEN /\ window' = [window EXCEPT !.shouldClose = TRUE]
         /\ UNCHANGED <<fullscreen, mode, mirroredDisplay, camera>>
    ELSE IF k = "F"
    THEN /\ fullscreen' = ~fullscreen
         /\ mode' = m
         /\ window' = SetWindowMonitor(window, ~fullscreen, m)
         /\ UNCHANGED <<mirroredDisplay, camera>>
    ELSE IF k = "M"
    THEN /\ mirroredDisplay' = ~mirroredDisplay
         /\ camera' = SetMirrorVertical(camera, ~mirroredDisplay)
         /\ UNCHANGED <<window, fullscreen, mode>>
    ELSE UNCHANGED <<window, fullscreen, mode, mirroredDisplay, camera>>

\* glfwPollEvents() delivers a key event to onKeyCallback
PollKeyEvent ==
    /\ mpc = "poll"
    /\ evCount < MaxEvents
    /\ \E k \in Keys, a \in KeyActions, m \in VideoModes :
         /\ KeyCallback(k, a, m)
         /\ lastEvent' = [type |-> "key", key |-> k, action |-> a]
    /\ evCount' = evCount + 1
    /\ UNCHANGED <<mpc, hpc, simulationRunning, simulationFinished, windowW,
                   windowH, glfw, atexitClose, toolState, released, forceVars>>

\* glfwPollEvents() delivers a window-size event: onWindowSizeCallback sets
\* windowW and windowH and calls renderGraphics(). A windowed window has
\* been resized by the user; a full-screen window reports its size.
PollWindowSize ==
    /\ mpc = "poll"
    /\ evCount < MaxEvents
    /\ \E s \in UserSizes \cup {[w |-> window.w, h |-> window.h]} :
         /\ window.monitor = "primary" => (s.w = window.w /\ s.h = window.h)
         /\ window' = [window EXCEPT !.w = s.w, !.h = s.h]
         /\ windowW' = s.w
         /\ windowH' = s.h
    /\ lastEvent' = [type |-> "size", key |-> "none", action |-> "none"]
    /\ evCount' = evCount + 1
    /\ UNCHANGED <<mpc, hpc, simulationRunning, simulationFinished, fullscreen,
                   mirroredDisplay, mode, camera, glfw, atexitClose, toolState,
                   released, forceVars>>

\* glfwPollEvents() returns
PollReturn ==
    /\ mpc = "poll"
    /\ mpc' = "loopTest"
    /\ UNCHANGED <<hpc, simulationRunning, simulationFinished, fullscreen,
                   mirroredDisplay, window, windowW, windowH, mode, camera,
                   glfw, atexitClose, toolState, released, lastEvent, evCount,
                   forceVars>>

\* glfwDestroyWindow(window)
MainDestroyWindow ==
    /\ mpc = "destroyWindow"
    /\ window' = [window EXCEPT !.state = "destroyed"]
    /\ mpc' = "terminate"
    /\ UNCHANGED <<hpc, simulationRunning, simulationFinished, fullscreen,
                   mirroredDisplay, windowW, windowH, mode, camera, glfw,
                   atexitClose, toolState, released, lastEvent, evCount,
                   forceVars>>

\* glfwTerminate()
MainTerminate ==
    /\ mpc = "terminate"
    /\ glfw' = "terminated"
    /\ mpc' = "return"
    /\ UNCHANGED <<hpc, simulationRunning, simulationFinished, fullscreen,
                   mirroredDisplay, window, windowW, windowH, mode, camera,
                   atexitClose, toolState, released, lastEvent, evCount,
                   forceVars>>

\* return (0): exit runs the functions registered with atexit
MainReturn ==
    /\ mpc = "return"
    /\ mpc' = IF atexitClose THEN "l653" ELSE "exited"
    /\ UNCHANGED <<hpc, simulationRunning, simulationFinished, fullscreen,
                   mirroredDisplay, window, windowW, windowH, mode, camera,
                   glfw, atexitClose, toolState, released, lastEvent, evCount,
                   forceVars>>

(***************************************************************************)
(* close                                                                   *)
(***************************************************************************)
\* the variables close() never writes
closeKeeps == <<simulationFinished, fullscreen, mirroredDisplay, window,
                windowW, windowH, mode, camera, glfw, atexitClose, lastEvent,
                evCount, forceVars>>

\* simulationRunning = false;
CloseStopSimulation ==
    /\ mpc = "l653"
    /\ simulationRunning' = FALSE
    /\ mpc' = "l656"
    /\ UNCHANGED <<hpc, toolState, released, closeKeeps>>

\* while (!simulationFinished): one read of the flag
CloseWaitTest ==
    /\ mpc = "l656"
    /\ mpc' = IF ~simulationFinished THEN "sleep" ELSE "l659"
    /\ UNCHANGED <<hpc, simulationRunning, toolState, released, closeKeeps>>

\* cSleepMs(100)
CloseSleep ==
    /\ mpc = "sleep"
    /\ mpc' = "l656"
    /\ UNCHANGED <<hpc, simulationRunning, toolState, released, closeKeeps>>

\* tool->stop();
CloseToolStop ==
    /\ mpc = "l659"
    /\ toolState' = "stopped"
    /\ mpc' = "l662"
    /\ UNCHANGED <<hpc, simulationRunning, released, closeKeeps>>

\* delete hapticsThread; (the cThread object; the running thread goes on)
CloseDeleteThread ==
    /\ mpc = "l662"
    /\ released' = released \cup {"hapticsThread"}
    /\ mpc' = "l663"
    /\ UNCHANGED <<hpc, simulationRunning, toolState, closeKeeps>>

\* delete world;
CloseDeleteWorld ==
    /\ mpc = "l663"
    /\ released' = released \cup {"world"}
    /\ mpc' = "l664"
    /\ UNCHANGED <<hpc, simulationRunning, toolState, closeKeeps>>

\* delete handler; and close() returns
CloseDeleteHandler ==
    /\ mpc = "l664"
    /\ released' = released \cup {"handler"}
    /\ mpc' = "closed"
    /\ UNCHANGED <<hpc, simulationRunning, toolState, closeKeeps>>

\* exit() ends the process after close() has returned: a haptics thread
\* that has not returned from renderHaptics ends with it
ProcessExit ==
    /\ mpc = "closed"
    /\ mpc' = "exited"
    /\ hpc' = IF hpc \in {"none", "done"} THEN hpc ELSE "killed"
    /\ UNCHANGED <<simulationRunning, toolState, released, closeKeeps>>

(***************************************************************************)
(* renderHaptics: start-up, loop test, loop body, end                      *)
(***************************************************************************)
ProcessAlive == mpc \notin {"exited", "crashed"}

\* the variables the haptics thread never writes
hapticsKeeps == <<fullscreen, mirroredDisplay, window, windowW, windowH, mode,
                  camera, glfw, atexitClose, toolState, released, lastEvent,
                  evCount>>

\* simulationRunning = true;
HapticsSetRunning ==
    /\ hpc = "l722"
    /\ ProcessAlive
    /\ simulationRunning' = TRUE
    /\ hpc' = "l723"
    /\ UNCHANGED <<mpc, simulationFinished, hapticsKeeps, forceVars>>

\* simulationFinished = false; the value renderHaptics gives the flag
FinishedAtStartMut == TRUE

FinishedAtStart == FALSE

HapticsClearFinished ==
    /\ hpc = "l723"
    /\ ProcessAlive
    /\ simulationFinished' = FinishedAtStart
    /\ hpc' = "l738"
    /\ UNCHANGED <<mpc, simulationRunning, hapticsKeeps, forceVars>>

\* while (simulationRunning): one read of the flag
HapticsLoopTest ==
    /\ hpc = "l738"
    /\ ProcessAlive
    /\ hpc' = IF simulationRunning THEN "body" ELSE "l823"
    /\ UNCHANGED <<mpc, simulationRunning, simulationFinished, hapticsKeeps,
                   forceVars>>

\* one iteration of the loop body: it uses world, tool and the objects.
\* When world has been deleted that is a use of freed memory: the
\* iteration either goes on with the stale objects or the process crashes.
HapticsBody ==
    /\ hpc = "body"
    /\ ProcessAlive
    /\ \/ hpc' = "l738" /\ mpc' = mpc
       \/ "world" \in released /\ hpc' = "crashed" /\ mpc' = "crashed"
    /\ UNCHANGED <<simulationRunning, simulationFinished, hapticsKeeps,
                   forceVars>>

\* simulationFinished = true;
HapticsSetFinished ==
    /\ hpc = "l823"
    /\ ProcessAlive
    /\ simulationFinished' = TRUE
    /\ hpc' = "done"
    /\ UNCHANGED <<mpc, simulationRunning, hapticsKeeps, forceVars>>

(***************************************************************************)
(* The life cycle                                                          *)
(***************************************************************************)
MainStep ==
    \/ MainCreateWindow
    \/ MainSetupWorld
    \/ MainStartThread
    \/ MainAtexit
    \/ MainLoopTest
    \/ MainRender
    \/ PollKeyEvent
    \/ PollWindowSize
    \/ PollReturn
    \/ MainDestroyWindow
    \/ MainTerminate
    \/ MainReturn
    \/ CloseStopSimulation
    \/ CloseWaitTest
    \/ CloseSleep
    \/ CloseToolStop
    \/ CloseDeleteThread
    \/ CloseDeleteWorld
    \/ CloseDeleteHandler
    \/ ProcessExit

HapticsStep ==
    \/ HapticsSetRunning
    \/ HapticsClearFinished
    \/ HapticsLoopTest
    \/ HapticsBody
    \/ HapticsSetFinished

Next == MainStep \/ HapticsStep

Spec == Init /\ [][Next]_vars

\* both threads are scheduled again and again
FairSpec == Spec /\ WF_vars(MainStep) /\ WF_vars(HapticsStep)

(***************************************************************************)
(* Properties of the life cycle                                            *)
(***************************************************************************)
\* the step delivers a key event for one of the keys ks with action PRESS
\* or REPEAT
KeyPressStep(ks) ==
    /\ mpc = "poll"
    /\ evCount' = evCount + 1
    /\ lastEvent'.type = "key"
    /\ lastEvent'.key \in ks
    /\ lastEvent'.action \in {"PRESS", "REPEAT"}

\* C1: close() waits for the haptics loop to terminate before it releases
\* anything: the haptics thread is never inside an iteration of its loop
\* body once close() has called tool->stop() or deleted hapticsThread,
\* world or handler.
C1_NoIterationAfterRelease ==
    hpc = "body" => (toolState # "stopped" /\ released = {})

\* C2: shutdown always completes: once close() has been invoked, under fair
\* scheduling of both threads, the haptics loop eventually sees
\* simulationRunning false and sets simulationFinished, and close()
\* eventually leaves its wait loop and returns.
C2_ShutdownCompletes ==
    (mpc = "l653") ~> (/\ hpc = "done"
                       /\ simulationFinished
                       /\ mpc \in {"closed", "exited"})

\* C3: simulationFinished is false in every state in which the haptics
\* thread is inside its while loop (at the loop test or in the body), and
\* it becomes true only by the step that follows the loop.
C3_FinishedOnlyOutsideLoop ==
    /\ [](hpc \in {"l738", "body"} => ~simulationFinished)
    /\ [][(~simulationFinished /\ simulationFinished')
            => (hpc = "l823" /\ hpc' = "done")]_vars

C3_Witness ==
    /\ hpc = "body"
    /\ mpc = "sleep"
    /\ ~simulationFinished

C5_FullscreenMatchesFlag ==
    /\ [](window.state = "open"
            => ((window.monitor = "primary") <=> fullscreen))
    /\ [][ /\ KeyPressStep({"F"}) =>
                /\ fullscreen' = ~fullscreen
                /\ IF fullscreen'
                   THEN /\ window'.monitor = "primary"
                        /\ window'.w = mode'.width
                        /\ window'.h = mode'.height
                   ELSE /\ window'.monitor = "NULL"
                        /\ 10 * window'.w <= 8 * mode'.height
                        /\ 8 * mode'.height < 10 * (window'.w + 1)
                        /\ 2 * window'.h <= mode'.height
                        /\ mode'.height < 2 * (window'.h + 1)
                        /\ (mode'.width - window'.w) - 2 * window'.x \in -1..1
                        /\ (mode'.height - window'.h) - 2 * window'.y \in -1..1
           /\ fullscreen' # fullscreen => KeyPressStep({"F"})
         ]_vars

C5_Witness ==
    /\ window.state = "open"
    /\ fullscreen
    /\ window.monitor = "primary"
    /\ lastEvent = [type |-> "key", key |-> "F", action |-> "REPEAT"]

\* C6: once the camera exists its vertical-mirror setting equals
\* mirroredDisplay, and every M key event with action PRESS or REPEAT
\* flips both (so two of them restore the setting); nothing else changes
\* mirroredDisplay.
C6_MirrorMatchesFlag ==
    /\ [](camera.created => (camera.mirrorVertical = mirroredDisplay))
    /\ [][ /\ KeyPressStep({"M"}) =>
                /\ mirroredDisplay' = ~mirroredDisplay
                /\ camera'.mirrorVertical = ~camera.mirrorVertical
           /\ mirroredDisplay' # mirroredDisplay => KeyPressStep({"M"})
         ]_vars

C6_Witness ==
    /\ camera.created
    /\ mirroredDisplay
    /\ camera.mirrorVertical
    /\ lastEvent = [type |-> "key", key |-> "M", action |-> "PRESS"]

(***************************************************************************)
(* The haptics loop, block by block                                        *)
(***************************************************************************)
\* the main thread in its graphic loop, the haptics thread at its first
\* loop test; object2 as some earlier iterations may have left it
ForceInit ==
    /\ mpc = "loopTest"
    /\ hpc = "l738"
    /\ simulationRunning = TRUE
    /\ simulationFinished = FALSE
    /\ fullscreen = FALSE
    /\ mirroredDisplay = FALSE
    /\ mode = [width |-> 1920, height |-> 1080]
    /\ window = [state |-> "open", monitor |-> "NULL",
                 x |-> WindowedX(mode), y |-> WindowedY(mode),
                 w |-> WindowedW(mode), h |-> WindowedH(mode),
                 shouldClose |-> FALSE]
    /\ windowW = WindowedW(mode)
    /\ windowH = WindowedH(mode)
    /\ camera = [created |-> TRUE, mirrorVertical |-> FALSE]
    /\ glfw = "init"
    /\ atexitClose = TRUE
    /\ toolState = "started"
    /\ released = {}
    /\ lastEvent = NoEvent
    /\ evCount = 0
    /\ iter = 0
    /\ sentCount = 0
    /\ toolPos = <<0, 0, 0>>
    /\ linearVelocity = <<0, 0, 0>>
    /\ engineForce = <<0, 0, 0>>
    /\ baseForce = <<0, 0, 0>>
    /\ deviceForce = <<0, 0, 0>>
    /\ inLoop = FALSE
    /\ oscTime3 = 0
    /\ radiusSum3 = 0
    /\ \E o \in Object2States :
         /\ object2Vel = o.vel
         /\ object2Local = o.pos
         /\ object2Global = o.pos

\* what the loop body never writes
bodyKeeps == <<mpc, simulationRunning, simulationFinished, hapticsKeeps>>

\* while (simulationRunning), followed for MaxIter iterations
ForceLoopTest ==
    /\ hpc = "l738"
    /\ simulationRunning => iter < MaxIter
    /\ hpc' = IF simulationRunning THEN "l740" ELSE "l823"
    /\ iter' = IF simulationRunning THEN iter + 1 ELSE iter
    /\ UNCHANGED <<bodyKeeps, sentCount, toolPos, linearVelocity, engineForce,
                   baseForce, deviceForce, inLoop, oscTime3, radiusSum3,
                   object2Vel, object2Local, object2Global>>

\* world->computeGlobalPositions(true); tool->updateFromDevice();
\* tool->computeInteractionForces(); toolPos = tool->getDeviceGlobalPos();
\* baseForce = tool->getDeviceGlobalForce();
ForceUpdate ==
    /\ hpc = "l740"
    /\ object2Global' = object2Local
    /\ \E p \in ToolPositions, f \in EngineForces :
         /\ toolPos' = p
         /\ engineForce' = f
         /\ baseForce' = f
    /\ linearVelocity' = <<0, 0, 0>>
    /\ hpc' = "l748"
    /\ UNCHANGED <<bodyKeeps, iter, sentCount, deviceForce, inLoop, oscTime3,
                   radiusSum3, object2Vel, object2Local>>

\* the object0 block
ForceObject0 ==
    /\ hpc = "l748"
    /\ IF InZone(Object0Pos, toolPos, RadiusSum0)
       THEN \E v \in ToolVelocities :
              /\ linearVelocity' = v
              /\ baseForce' = Object0Force(baseForce, v)
       ELSE UNCHANGED <<linearVelocity, baseForce>>
    /\ hpc' = "l769"
    /\ UNCHANGED <<bodyKeeps, iter, sentCount, toolPos, engineForce,
                   deviceForce, inLoop, oscTime3, radiusSum3, object2Vel,
                   object2Local, object2Global>>

\* the object3 block
ForceObject3 ==
    /\ hpc = "l769"
    /\ radiusSum3' = RadiusSum3(inLoop)
    /\ IF InZone(Object3Pos, toolPos, radiusSum3')
       THEN /\ oscTime3' = oscTime3 + 1
            /\ baseForce' = VAdd(baseForce, Oscillation(oscTime3'))
            /\ inLoop' = TRUE
       ELSE /\ oscTime3' = 0
            /\ inLoop' = FALSE
            /\ baseForce' = baseForce
    /\ hpc' = "l794"
    /\ UNCHANGED <<bodyKeeps, iter, sentCount, toolPos, linearVelocity,
                   engineForce, deviceForce, object2Vel, object2Local,
                   object2Global>>

\* the object2 block up to baseForce *= 10
ForceObject2 ==
    /\ hpc = "l794"
    /\ IF InZone(object2Global, toolPos, RadiusSum2)
       THEN /\ object2Vel' = VAdd(object2Vel, Object2Impulse(baseForce, object2Vel))
            /\ baseForce' = Object2Force(baseForce)
       ELSE UNCHANGED <<object2Vel, baseForce>>
    /\ hpc' = "l808"
    /\ UNCHANGED <<bodyKeeps, iter, sentCount, toolPos, linearVelocity,
                   engineForce, deviceForce, inLoop, oscTime3, radiusSum3,
                   object2Local, object2Global>>

\* object2->setLocalPos(object2->getLocalPos() + object2Vel * timeStep);
\* object2Vel *= 0.999; and the reset beyond the distance 1.0
ForceObject2Move ==
    /\ hpc = "l808"
    /\ LET pos == VAdd(object2Local, Object2Step(object2Vel))
       IN  IF Dist2(pos, Object2StartPos) > ResetDistance * ResetDistance
           THEN /\ object2Vel' = <<0, 0, 0>>
                /\ object2Local' = Object2StartPos
           ELSE /\ object2Vel' = Object2Decay(object2Vel)
                /\ object2Local' = pos
    /\ hpc' = "l818"
    /\ UNCHANGED <<bodyKeeps, iter, sentCount, toolPos, linearVelocity,
                   engineForce, baseForce, deviceForce, inLoop, oscTime3,
                   radiusSum3, object2Global>>

\* tool->setDeviceGlobalForce(baseForce); tool->applyToDevice();
ForceSend ==
    /\ hpc = "l818"
    /\ deviceForce' = baseForce
    /\ sentCount' = sentCount + 1
    /\ hpc' = "l738"
    /\ UNCHANGED <<bodyKeeps, iter, toolPos, linearVelocity, engineForce,
                   baseForce, inLoop, oscTime3, radiusSum3, object2Vel,
                   object2Local, object2Global>>

\* close() on the main thread: simulationRunning = false;
ForceStop ==
    /\ simulationRunning
    /\ hpc \notin {"l823", "done"}
    /\ simulationRunning' = FALSE
    /\ UNCHANGED <<mpc, hpc, simulationFinished, hapticsKeeps, forceVars>>

ForceNext ==
    \/ ForceLoopTest
    \/ ForceUpdate
    \/ ForceObject0
    \/ ForceObject3
    \/ ForceObject2
    \/ ForceObject2Move
    \/ ForceSend
    \/ ForceStop
    \/ HapticsSetFinished

ForceSpec == ForceInit /\ [][ForceNext]_vars

(***************************************************************************)
(* Properties of the haptics loop                                          *)
(***************************************************************************)
\* the proximity tests of the current iteration, from the positions and
\* the thresholds 0.05 + 0.5, radiusSum3 and 0.03 + 0.3
Near0 == Dist2(toolPos, <<0, -12000, 0>>) < 5500 * 5500

Near3 == Dist2(toolPos, <<0, 0, 0>>) < radiusSum3 * radiusSum3

Near2 == Dist2(toolPos, object2Global) < 3300 * 3300

\* an iteration has sent its force and the next loop test has not run
IterationDone == hpc = "l738" /\ iter > 0

\* the object2 block runs its proximity test and, in the zone, the impulse
Object2BlockStep == hpc = "l794" /\ hpc' = "l808"

\* the force accumulated before the object2 block, from the inputs of the
\* iteration: F, or 4*(F + 0.1*v) in object0's zone, plus (-f2, f, f2) in
\* object3's zone
Accumulated(i) ==
    (IF Near0
     THEN 4 * (engineForce[i] + linearVelocity[i] \div 10)
     ELSE engineForce[i])
    + (IF Near3
       THEN <<-OscCos[oscTime3], OscSin[oscTime3], OscCos[oscTime3]>>[i]
       ELSE 0)

\* C7: every iteration passes exactly one force to setDeviceGlobalForce;
\* in an iteration with the tool outside all three zones that force is the
\* engine's interaction force unchanged, and the object2 block leaves
\* object2Vel as it is.
C7_OutsideAllZones ==
    /\ [](hpc = "l738" => sentCount = iter)
    /\ [](hpc \in {"l740", "l748", "l769", "l794", "l808", "l818"}
            => sentCount = iter - 1)
    /\ []((IterationDone /\ ~Near0 /\ ~Near3 /\ ~Near2)
            => deviceForce = engineForce)
    /\ [][(Object2BlockStep /\ ~Near0 /\ ~Near3 /\ ~Near2)
            => object2Vel' = object2Vel]_vars

C7_Witness ==
    /\ IterationDone
    /\ ~Near0 /\ ~Near3 /\ ~Near2
    /\ Dist2(toolPos, <<0, -12000, 0>>) = 5500 * 5500
    /\ deviceForce = <<1000, -2000, 500>>
    /\ object2Vel # <<0, 0, 0>>

\* C8: the force sent is built in the order object0, object3, object2:
\* with acc = (4*(F + 0.1*v) in object0's zone, else F) + (osc in object3's
\* zone), the force sent is 10*acc in object2's zone and acc outside it,
\* and in object2's zone the object2 block adds
\* (-acc - damping*vel) / mass * timeStep = -2*acc (in um/s per mN) to
\* object2Vel.
C8_ForceOrder ==
    /\ [](IterationDone =>
            \A i \in 1..3 :
                deviceForce[i] = IF Near2 THEN 10 * Accumulated(i)
                                 ELSE Accumulated(i))
    /\ [][(Object2BlockStep /\ Near2) =>
            \A i \in 1..3 :
                object2Vel'[i] = object2Vel[i]
                                 + 2 * (-Accumulated(i) - 0 * object2Vel[i])]_vars

\* in object3's outer radius and in object2's zone: 10 * (F + osc)
C8_Witness ==
    /\ IterationDone
    /\ ~Near0 /\ Near3 /\ Near2
    /\ oscTime3 = 2
    /\ engineForce = <<1000, -2000, 500>>
    /\ deviceForce = <<-49830, -15480, 64830>>

====
